---- MODULE Spec2Model ----
(***************************************************************************)
(* Model of get_current_week_events.py: the session-credential fallback    *)
(* chain (disk reuse, peer-capture harvest, external extractor) and the    *)
(* building x day fetch loop that follows it.                              *)
(*                                                                         *)
(* Text is modelled as a sequence of one-character strings, so that        *)
(* split / strip / upper / startswith are computed as Python computes them.*)
(* Time is counted in seconds.                                             *)
(***************************************************************************)
EXTENDS Integers, Sequences, FiniteSets, TLC

VARIABLES
    pc,           \* position of the single thread of control
    cookieFile,   \* content of COOKIE_FILE (the Credential Store)
    searchFile,   \* content of SEARCH_COOKIES_FILE (the peer-capture file)
    scripts,      \* set of candidate extractor paths that exist
    now,          \* wall clock read by datetime.now()
    today,        \* ordinal of date.today()
    upstream,     \* response of the service to each (building, day) request
    jar,          \* the name=value pairs the peer-capture cookies string was written from
    cookie,       \* result of the last tier that ran (local of get_wssessionid)
    wssessionid,  \* credential held by get_current_week_events
    tier,         \* which tier produced wssessionid
    script_path,  \* extractor located by _find_cookie_script
    week_dates,   \* local of get_current_week_events
    bi, di,       \* loop indices into BUILDING_IDS and week_dates
    all_events,   \* accumulator of get_current_week_events
    outputFile,   \* content of DEFAULT_OUTPUT_FILE
    error,        \* exception that reached main, "" when none
    calls,        \* log of the calls made, in order
    exits,        \* exit status of every extractor subprocess run, in order
    requests,     \* log of the HTTP requests sent: building, day, credential
    pauses,       \* log of the pauses taken, each in milliseconds
    writes        \* log of the files this program itself wrote

vars == <<pc, cookieFile, searchFile, scripts, now, today, upstream, jar, cookie,
          wssessionid, tier, script_path, week_dates, bi, di, all_events,
          outputFile, error, calls, exits, requests, pauses, writes>>

-----------------------------------------------------------------------------
(* Bounds of the model *)

\* number of entries of BUILDING_IDS the fetch loop is run over
NumBuildings == 2

\* largest number of name=value parts in a generated cookies string
MaxParts == 2

-----------------------------------------------------------------------------
(* Program constants *)

BUILDING_IDS_ALL ==
    <<"618852", "583845", "583852", "583841", "583837", "583840",
      "586114", "586120", "586116", "586124", "583865">>

Min(a, b) == IF a < b THEN a ELSE b

BUILDING_IDS == SubSeq(BUILDING_IDS_ALL, 1, Min(NumBuildings, Len(BUILDING_IDS_ALL)))

COOKIE_MAX_AGE_HOURS == 12

\* REQUEST_DELAY_SECONDS = 0.5, in milliseconds
REQUEST_DELAY_MS == 500

\* the two names tried by _find_cookie_script, in order
CANDIDATES == <<"cmu25live_extractor.py", "cmu_25live_search_cookie_extractor.py">>

\* "WSSESSIONID=" as text
WSSESSIONID_EQ == <<"W","S","S","E","S","S","I","O","N","I","D","=">>

-----------------------------------------------------------------------------
(* Text primitives, as Python's str methods compute them *)

LOWER == <<"a","b","c","d","e","f","g","h","i","j","k","l","m",
           "n","o","p","q","r","s","t","u","v","w","x","y","z">>
UPPER == <<"A","B","C","D","E","F","G","H","I","J","K","L","M",
           "N","O","P","Q","R","S","T","U","V","W","X","Y","Z">>

WHITESPACE == {" ", "\t"}

UpperChar(c) ==
    IF \E i \in 1..Len(LOWER) : LOWER[i] = c
    THEN UPPER[CHOOSE i \in 1..Len(LOWER) : LOWER[i] = c]
    ELSE c

\* str.upper()
Upper(s) == [i \in 1..Len(s) |-> UpperChar(s[i])]

\* str.startswith(p)
StartsWith(s, p) == Len(s) >= Len(p) /\ SubSeq(s, 1, Len(p)) = p

\* index of the first occurrence of character c in s, 0 when there is none
Find(s, c) ==
    IF \E i \in 1..Len(s) : s[i] = c
    THEN CHOOSE i \in 1..Len(s) : s[i] = c /\ \A j \in 1..(i-1) : s[j] # c
    ELSE 0

\* str.split(c): every piece between occurrences of c
RECURSIVE Split(_, _)
Split(s, c) ==
    LET i == Find(s, c)
    IN  IF i = 0 THEN <<s>>
        ELSE <<SubSeq(s, 1, i-1)>> \o Split(SubSeq(s, i+1, Len(s)), c)

\* str.split(c, 1): cut at the first occurrence of c only
Split1(s, c) ==
    LET i == Find(s, c)
    IN  IF i = 0 THEN <<s>>
        ELSE <<SubSeq(s, 1, i-1), SubSeq(s, i+1, Len(s))>>

RECURSIVE LStrip(_)
LStrip(s) ==
    IF s # <<>> /\ Head(s) \in WHITESPACE THEN LStrip(Tail(s)) ELSE s

RECURSIVE RStrip(_)
RStrip(s) ==
    IF s # <<>> /\ s[Len(s)] \in WHITESPACE
    THEN RStrip(SubSeq(s, 1, Len(s)-1)) ELSE s

\* str.strip()
Strip(s) == RStrip(LStrip(s))

-----------------------------------------------------------------------------
(* Results of a call: a value, None, or a raised exception *)

Value(v)   == [kind |-> "value", v |-> v,    exc |-> ""]
None       == [kind |-> "none",  v |-> <<>>, exc |-> ""]
Raise(e)   == [kind |-> "raise", v |-> <<>>, exc |-> e]

-----------------------------------------------------------------------------
(* JSON values as the code sees them *)

\* a field of a JSON object: absent (dict.get gives None), a number, or text
Missing    == [type |-> "missing", s |-> <<>>]
Num        == [type |-> "num",     s |-> <<>>]
Str(s)     == [type |-> "str",     s |-> s]

\* Python truthiness of such a field: None and "" are falsy
Truthy(j)  == j.type = "num" \/ (j.type = "str" /\ j.s # <<>>)

\* an acquisition timestamp as written in the file: the local date-time t
\* (in seconds) in ISO form followed by a suffix, or text that is no date-time
Iso(t, suffix) == [type |-> "str", form |-> "iso",   t |-> t, suffix |-> suffix]
JunkText       == [type |-> "str", form |-> "junk",  t |-> 0, suffix |-> ""]
EmptyText      == [type |-> "str", form |-> "empty", t |-> 0, suffix |-> ""]
NumStamp       == [type |-> "num", form |-> "",      t |-> 0, suffix |-> ""]
NoStamp        == [type |-> "missing", form |-> "",  t |-> 0, suffix |-> ""]

TruthyStamp(x) == x.type = "num" \/ (x.type = "str" /\ x.form # "empty")

\* a datetime object: naive, or aware of its UTC offset; NoDatetime is None
Datetime(t, aware) == [ok |-> TRUE,  t |-> t, aware |-> aware]
NoDatetime         == [ok |-> FALSE, t |-> 0, aware |-> FALSE]

\* datetime.fromisoformat: a bare date-time is naive, one with an offset aware
FromIsoFormat(x) ==
    IF x.form = "iso" /\ x.suffix = "" THEN Datetime(x.t, FALSE)
    ELSE IF x.form = "iso" /\ x.suffix = "+00:00" THEN Datetime(x.t, TRUE)
    ELSE NoDatetime

\* _parse_datetime: a trailing "Z" becomes "+00:00"; every exception (a value
\* that is no text has no endswith, text that is no date-time) gives None
ParseDatetime(x) ==
    IF x.type # "str" THEN NoDatetime
    ELSE IF x.suffix = "Z" THEN FromIsoFormat([x EXCEPT !.suffix = "+00:00"])
    ELSE FromIsoFormat(x)

-----------------------------------------------------------------------------
(* The Credential Store file and _load_cookie_from_disk *)

AbsentFile     == [kind |-> "absent",     WSSESSIONID |-> Missing, extracted_at |-> NoStamp]
UnreadableFile == [kind |-> "unreadable", WSSESSIONID |-> Missing, extracted_at |-> NoStamp]
BadJsonFile    == [kind |-> "badjson",    WSSESSIONID |-> Missing, extracted_at |-> NoStamp]
NonDictFile    == [kind |-> "nondict",    WSSESSIONID |-> Missing, extracted_at |-> NoStamp]
DictFile(c, x) == [kind |-> "dict",       WSSESSIONID |-> c,       extracted_at |-> x]

IsFreshLe(seconds) == seconds <= COOKIE_MAX_AGE_HOURS * 3600

IsFreshNotFuture(seconds) ==
    0 <= seconds /\ seconds < COOKIE_MAX_AGE_HOURS * 3600

\* hours_diff < COOKIE_MAX_AGE_HOURS, with hours_diff = total_seconds() / 3600
IsFresh(seconds) == seconds < COOKIE_MAX_AGE_HOURS * 3600

LoadCookieFromDisk(file, clock) ==
    IF file.kind = "absent" THEN None                        \* not exists()
    \* read_text() raises: PermissionError, IsADirectoryError, UnicodeDecodeError
    ELSE IF file.kind = "unreadable" THEN Raise("OSError")
    ELSE IF file.kind = "badjson" THEN None                  \* JSONDecodeError
    ELSE IF file.kind = "nondict" THEN Raise("AttributeError")  \* data.get
    ELSE
      LET extracted_at == file.extracted_at
          c            == file.WSSESSIONID
      IN  IF ~Truthy(c) \/ ~TruthyStamp(extracted_at) THEN None
          ELSE LET extracted_dt == ParseDatetime(extracted_at)
               IN  IF ~extracted_dt.ok THEN None
                   \* naive datetime.now() minus an aware datetime
                   ELSE IF extracted_dt.aware THEN Raise("TypeError")
                   ELSE IF IsFresh(clock - extracted_dt.t) THEN Value(c.s)
                   ELSE None

-----------------------------------------------------------------------------
(* The peer-capture file and _load_cookie_from_search_results *)

\* the entry of PREFERRED_COOKIE_KEY ("athletics"): absent, falsy (null or {}), truthy but no object, or
\* an object with a "cookies" field
NoEntry        == [type |-> "missing", cookies |-> Missing]
FalsyEntry     == [type |-> "falsy",   cookies |-> Missing]
TextEntry      == [type |-> "str",     cookies |-> Missing]
DictEntry(ck)  == [type |-> "dict",    cookies |-> ck]

AbsentSearch     == [kind |-> "absent",     entry |-> NoEntry]
UnreadableSearch == [kind |-> "unreadable", entry |-> NoEntry]
BadJsonSearch    == [kind |-> "badjson",    entry |-> NoEntry]
NonDictSearch    == [kind |-> "nondict",    entry |-> NoEntry]
DictSearch(e)    == [kind |-> "dict",       entry |-> e]

ValueOfPartLast(cookie_part) ==
    LET pieces == Split(cookie_part, "=") IN pieces[Len(pieces)]

\* cookie_part.split("=", 1)[1]
ValueOfPart(cookie_part) == Split1(cookie_part, "=")[2]

MatchesNameExact(cookie_part) == StartsWith(cookie_part, WSSESSIONID_EQ)

\* cookie_part.upper().startswith("WSSESSIONID=")
MatchesName(cookie_part) == StartsWith(Upper(cookie_part), WSSESSIONID_EQ)

\* the scan, were the last part that carries the name to decide
RECURSIVE ScanPartsLast(_)
ScanPartsLast(parts) ==
    IF parts = <<>> THEN None
    ELSE LET cookie_part == Strip(parts[Len(parts)])
         IN  IF MatchesName(cookie_part) /\ ValueOfPart(cookie_part) # <<>>
             THEN Value(ValueOfPart(cookie_part))
             ELSE ScanPartsLast(SubSeq(parts, 1, Len(parts) - 1))

\* the for loop over raw_cookie_string.split(";"): the first part that carries
\* the name and a non-empty value decides
RECURSIVE ScanParts(_)
ScanParts(parts) ==
    IF parts = <<>> THEN None
    ELSE LET cookie_part == Strip(Head(parts))
         IN  IF MatchesName(cookie_part) /\ ValueOfPart(cookie_part) # <<>>
             THEN Value(ValueOfPart(cookie_part))
             ELSE ScanParts(Tail(parts))

LoadCookieFromSearchResults(file) ==
    IF file.kind = "absent" THEN None
    ELSE IF file.kind = "unreadable" THEN Raise("OSError")
    ELSE IF file.kind = "badjson" THEN None
    ELSE IF file.kind = "nondict" THEN Raise("AttributeError")   \* data.get
    ELSE
      LET preferred_entry == file.entry
      IN  IF preferred_entry.type \in {"missing", "falsy"} THEN None
          ELSE IF preferred_entry.type # "dict"
               THEN Raise("AttributeError")                       \* preferred_entry.get
          ELSE LET raw_cookie_string == preferred_entry.cookies
               IN  IF ~Truthy(raw_cookie_string) THEN None
                   ELSE IF raw_cookie_string.type # "str"
                        THEN Raise("AttributeError")              \* .split
                   ELSE ScanParts(Split(raw_cookie_string.s, ";"))

-----------------------------------------------------------------------------
(* _find_cookie_script *)

\* the first candidate that exists, as [kind |-> "value", v |-> its name], or
\* FileNotFoundError when none does
RECURSIVE FirstExisting(_, _)
FirstExisting(candidates, existing) ==
    IF candidates = <<>> THEN Raise("FileNotFoundError")
    ELSE IF Head(candidates) \in existing
         THEN [kind |-> "value", v |-> Head(candidates), exc |-> ""]
    ELSE FirstExisting(Tail(candidates), existing)

FindCookieScriptLastResort(existing) ==
    IF existing = {}
    THEN [kind |-> "value", v |-> CANDIDATES[Len(CANDIDATES)], exc |-> ""]
    ELSE FirstExisting(CANDIDATES, existing)

FindCookieScript(existing) == FirstExisting(CANDIDATES, existing)

-----------------------------------------------------------------------------
(* get_current_week_dates: a date is its proleptic ordinal (ordinal 1 is    *)
(* Monday 0001-01-01), which is how datetime.date does its arithmetic; an  *)
(* ISO date string is the triple <<year, month, day>> that it spells       *)

DAYS_IN_MONTH     == <<31, 28, 31, 30, 31, 30, 31, 31, 30, 31, 30, 31>>
DAYS_BEFORE_MONTH == <<0, 31, 59, 90, 120, 151, 181, 212, 243, 273, 304, 334>>

\* date.fromordinal followed by the year, month and day that isoformat() prints
IsoFormat(ordinal) ==
    LET n0   == ordinal - 1
        n400 == n0 \div 146097
        r400 == n0 % 146097
        n100 == r400 \div 36524
        r100 == r400 % 36524
        n4   == r100 \div 1461
        r4   == r100 % 1461
        n1   == r4 \div 365
        n    == r4 % 365
        year == n400 * 400 + 1 + n100 * 100 + n4 * 4 + n1
        leapyear == n1 = 3 /\ (n4 # 24 \/ n100 = 3)
        month0   == (n + 50) \div 32
        before0  == DAYS_BEFORE_MONTH[month0]
                    + (IF month0 > 2 /\ leapyear THEN 1 ELSE 0)
        month    == IF before0 > n THEN month0 - 1 ELSE month0
        before   == IF before0 > n
                    THEN before0 - (DAYS_IN_MONTH[month]
                                    + (IF month = 2 /\ leapyear THEN 1 ELSE 0))
                    ELSE before0
    IN  IF n1 = 4 \/ n100 = 4 THEN <<year - 1, 12, 31>>
        ELSE <<year, month, n - before + 1>>

WeekdaySundayFirst(d) == d % 7

\* date.weekday(): Monday is 0
Weekday(d) == (d - 1) % 7

GetCurrentWeekDates(day) ==
    LET monday == day - Weekday(day)
    IN  [i \in 1..7 |-> IsoFormat(monday + (i - 1))]

-----------------------------------------------------------------------------
(* The upstream service and fetch_building_events *)

\* the event_name of an entry: text, a number, null, or absent
NameText(s)  == [type |-> "str",     s |-> s]
NameNum(s)   == [type |-> "num",     s |-> s]
NameNull     == [type |-> "null",    s |-> ""]
NameMissing  == [type |-> "missing", s |-> ""]

\* str(event.get("event_name", "")): text as it is, a number as its digits,
\* null as "None", and "" when the key is absent
PyStr(j) ==
    IF j.type = "null" THEN "None"
    ELSE IF j.type = "missing" THEN ""
    ELSE j.s

\* a reservation entry of the response; subject lists the itemName of each
\* location sub-entry
Rsrv(name, start, end, subject) ==
    [event_name |-> name, rsrv_start_dt |-> start, rsrv_end_dt |-> end,
     subject |-> subject]

\* a response: the request failed (RequestException), the body is no JSON, or
\* the body is JSON of some shape; rsrv is read only when shape = "ok"
FailedResponse  == [kind |-> "exc",     shape |-> "",    rsrv |-> <<>>]
NotJsonResponse == [kind |-> "notjson", shape |-> "",    rsrv |-> <<>>]
JsonResponse(shape, rsrv) == [kind |-> "json", shape |-> shape, rsrv |-> rsrv]

RecordsOfAtLeastOne(event, building_id, day) ==
    [k \in 1..(IF event.subject = <<>> THEN 1 ELSE Len(event.subject)) |->
        [name |-> PyStr(event.event_name),
         location |-> IF event.subject = <<>> THEN "None" ELSE event.subject[k],
         startTime |-> event.rsrv_start_dt, endTime |-> event.rsrv_end_dt,
         date |-> day, buildingID |-> building_id]]

\* the records of one reservation entry: one per location sub-entry
RecordsOf(event, building_id, day) ==
    [k \in 1..Len(event.subject) |->
        [name |-> PyStr(event.event_name), location |-> event.subject[k],
         startTime |-> event.rsrv_start_dt, endTime |-> event.rsrv_end_dt,
         date |-> day, buildingID |-> building_id]]

RECURSIVE Normalize(_, _, _)
Normalize(rsrv_entries, building_id, day) ==
    IF rsrv_entries = <<>> THEN <<>>
    ELSE RecordsOf(Head(rsrv_entries), building_id, day)
         \o Normalize(Tail(rsrv_entries), building_id, day)

\* data.get("root", {}).get("events", [{}])[0].get("rsrv") and what follows
FetchBuildingEvents(building_id, day, response) ==
    IF response.kind = "exc" THEN Value(<<>>)
    ELSE IF response.kind = "notjson" THEN Value(<<>>)
    ELSE IF response.shape = "nondict" THEN Raise("AttributeError")      \* data.get
    ELSE IF response.shape = "rootnull" THEN Raise("AttributeError")     \* None.get
    ELSE IF response.shape = "eventsnull" THEN Raise("TypeError")        \* None[0]
    ELSE IF response.shape = "eventsempty" THEN Raise("IndexError")      \* [][0]
    ELSE IF response.shape \in {"noroot", "noevents", "norsrv", "rsrvnull"}
         THEN Value(<<>>)
    ELSE IF response.rsrv = <<>> THEN Value(<<>>)
    ELSE Value(Normalize(response.rsrv, building_id, day))

-----------------------------------------------------------------------------
(* The environment a run starts in *)

NAME_UPPER == <<"W","S","S","E","S","S","I","O","N","I","D">>
NAME_LOWER == <<"w","s","s","e","s","s","i","o","n","i","d">>
NAME_LONG  == NAME_UPPER \o <<"X">>

\* a cookie header string is written from name=value pairs, each after the
\* first preceded by a separator: ";" alone or with a blank on either side
Pair(sep, name, value) == [sep |-> sep, name |-> name, value |-> value]

RECURSIVE Render(_)
Render(pairs) ==
    IF pairs = <<>> THEN <<>>
    ELSE LET p == pairs[Len(pairs)]
         IN  Render(SubSeq(pairs, 1, Len(pairs) - 1))
             \o p.sep \o p.name \o <<"=">> \o p.value

SearchFileOf(pairs) == DictSearch(DictEntry(Str(Render(pairs))))

PairNames  == {NAME_UPPER, NAME_LOWER, <<"A">>, NAME_LONG}
PairValues == {<<>>, <<"a","b","c","1","2","3">>, <<"a","=","b">>}
Separators == {<<";">>, <<";"," ">>, <<" ",";">>}

FirstPairs == {Pair(<<>>, n, v) : n \in PairNames, v \in PairValues}
MorePairs  == {Pair(sp, n, v) : sp \in Separators, n \in PairNames, v \in PairValues}

\* every list of 1..n pairs
RECURSIVE Jars(_)
Jars(n) ==
    IF n <= 1 THEN {<<p>> : p \in FirstPairs}
    ELSE Jars(n - 1) \cup
         {j \o <<p>> : j \in {k \in Jars(n - 1) : Len(k) = n - 1}, p \in MorePairs}

\* the two strings of the specification's example, two without a token, and
\* one with two tokens
ExampleJars ==
    { <<Pair(<<>>, <<"A">>, <<"1">>),
        Pair(<<";"," ">>, NAME_UPPER, <<"a","b","c","1","2","3">>),
        Pair(<<";"," ">>, <<"B">>, <<"2">>)>>,
      <<Pair(<<>>, <<"A">>, <<"1">>),
        Pair(<<";"," ">>, NAME_LOWER, <<"a","b","c","1","2","3">>),
        Pair(<<";"," ">>, <<"B">>, <<"2">>)>>,
      <<Pair(<<>>, <<"A">>, <<"1">>), Pair(<<";"," ">>, <<"B">>, <<"2">>)>>,
      <<Pair(<<>>, NAME_UPPER, <<>>)>>,
      <<Pair(<<>>, NAME_LOWER, <<"o","l","d">>),
        Pair(<<";"," ">>, NAME_UPPER, <<"n","e","w">>)>> }

\* peer-capture files that hold no cookies string
PlainSearchFiles ==
    { AbsentSearch, UnreadableSearch, BadJsonSearch, NonDictSearch,
      DictSearch(NoEntry), DictSearch(FalsyEntry), DictSearch(TextEntry),
      DictSearch(DictEntry(Missing)), DictSearch(DictEntry(Str(<<>>))),
      DictSearch(DictEntry(Num)) }

\* the clock at the start of a run
StartTimes == {100 * 3600}

\* ages of a stored credential: in the future, new, 11h59m, 12h less a second,
\* 12h, 12h01m
Ages == {0 - 864000, 0 - 3600, 0, 43140, 43199, 43200, 43260}

TOKEN == <<"t","o","k">>

Stamps(clock) ==
    {NoStamp, EmptyText, NumStamp, JunkText}
    \cup {Iso(clock - a, sfx) : a \in Ages, sfx \in {"", "Z", "+00:00"}}

CookieFiles(clock) ==
    {AbsentFile, UnreadableFile, BadJsonFile, NonDictFile}
    \cup {DictFile(Str(TOKEN), x) : x \in Stamps(clock)}
    \cup {DictFile(c, Iso(clock, "")) : c \in {Missing, Str(<<>>)}}
    \cup {DictFile(Missing, NoStamp)}

\* the chain does not depend on the day; ordinal 738828 is Saturday 2023-11-04
Todays == {738828}

EmptyJson == JsonResponse("ok", <<>>)
OneEvent  == JsonResponse("ok", <<Rsrv(NameText("Yoga"), "T09", "T10", <<"Gym">>)>>)

\* the service answers every pair with `rest`, but pair (b, d) with `r`
Answering(b, d, r, rest) ==
    [i \in 1..Len(BUILDING_IDS) |->
        [k \in 1..7 |-> IF i = b /\ k = d THEN r ELSE rest]]

Upstreams ==
    { Answering(1, 1, EmptyJson, EmptyJson),
      Answering(1, 2, OneEvent, EmptyJson),
      Answering(1, 3, FailedResponse, OneEvent),
      Answering(1, 4, JsonResponse("eventsempty", <<>>), EmptyJson) }

\* what does not depend on the environment: the state at the entry of main
InitLocals ==
    /\ pc = "disk"
    /\ cookie = None
    /\ wssessionid = <<>>
    /\ tier = ""
    /\ script_path = ""
    /\ week_dates = <<>>
    /\ bi = 0
    /\ di = 0
    /\ all_events = <<>>
    /\ outputFile = <<>>
    /\ error = ""
    /\ calls = <<>>
    /\ exits = <<>>
    /\ requests = <<>>
    /\ pauses = <<>>
    /\ writes = <<>>

Init ==
    /\ InitLocals
    /\ now \in StartTimes
    /\ cookieFile \in CookieFiles(now)
    /\ \/ searchFile \in PlainSearchFiles /\ jar = <<>>
       \/ jar \in ExampleJars /\ searchFile = SearchFileOf(jar)
    /\ scripts \in SUBSET {CANDIDATES[i] : i \in 1..Len(CANDIDATES)}
    /\ today \in Todays
    /\ upstream \in Upstreams

-----------------------------------------------------------------------------
(* The run: main -> get_current_week_events -> get_wssessionid -> fetch loop *)

\* an exception propagates to main, which prints it and exits with status 1
Abort(e) ==
    /\ error' = e
    /\ pc' = "exit1"

Log(what) == calls' = Append(calls, what)

ReturnOrNextFallsThrough(r, next) == next

\* get_wssessionid, "if cookie: return cookie": a credential ends the chain,
\* anything else passes control to the next tier
ReturnOrNext(r, next) == IF r.kind = "value" THEN "dates" ELSE next

\* the peer-capture tier, were it to persist what it harvests
PeerTierPersisting ==
    /\ pc = "peer"
    /\ Log("load_search")
    /\ LET r == LoadCookieFromSearchResults(searchFile)
       IN  /\ cookie' = r
           /\ IF r.kind = "raise"
              THEN Abort(r.exc) /\ UNCHANGED <<wssessionid, tier, cookieFile>>
              ELSE IF r.kind = "value"
              THEN wssessionid' = r.v /\ tier' = "peer"
                   /\ cookieFile' = DictFile(Str(r.v), Iso(now, ""))
                   /\ pc' = ReturnOrNext(r, "find") /\ UNCHANGED error
              ELSE pc' = ReturnOrNext(r, "find")
                   /\ UNCHANGED <<wssessionid, tier, error, cookieFile>>
    /\ UNCHANGED <<pauses, exits, searchFile, scripts, now, today, upstream, jar,
                   script_path, week_dates, bi, di, all_events, outputFile,
                   requests, writes>>

\* the re-read, were it to run the extractor again when nothing usable is found
ReloadRetrying ==
    /\ pc = "reload"
    /\ Log("load_disk")
    /\ LET r == LoadCookieFromDisk(cookieFile, now)
       IN  /\ cookie' = r
           /\ IF r.kind = "raise"
              THEN Abort(r.exc) /\ UNCHANGED <<wssessionid, tier>>
              ELSE IF r.kind = "value"
              THEN wssessionid' = r.v /\ tier' = "extractor" /\ pc' = "dates"
                   /\ UNCHANGED error
              ELSE pc' = "run" /\ UNCHANGED <<wssessionid, tier, error>>
    /\ UNCHANGED <<pauses, exits, cookieFile, searchFile, scripts, now, today,
                   upstream, jar,
                   script_path, week_dates, bi, di, all_events, outputFile,
                   requests, writes>>

\* get_wssessionid, lines 125-127: the disk tier
DiskTier ==
    /\ pc = "disk"
    /\ Log("load_disk")
    /\ LET r == LoadCookieFromDisk(cookieFile, now)
       IN  /\ cookie' = r
           /\ IF r.kind = "raise"
              THEN Abort(r.exc) /\ UNCHANGED <<wssessionid, tier>>
              ELSE IF r.kind = "value"
              THEN wssessionid' = r.v /\ tier' = "disk"
                   /\ pc' = ReturnOrNext(r, "peer") /\ UNCHANGED error
              ELSE pc' = ReturnOrNext(r, "peer")
                   /\ UNCHANGED <<wssessionid, tier, error>>
    /\ UNCHANGED <<pauses, exits, cookieFile, searchFile, scripts, now, today,
                   upstream, jar,
                   script_path, week_dates, bi, di, all_events, outputFile,
                   requests, writes>>

\* get_wssessionid, lines 128-130: the peer-capture tier
PeerTier ==
    /\ pc = "peer"
    /\ Log("load_search")
    /\ LET r == LoadCookieFromSearchResults(searchFile)
       IN  /\ cookie' = r
           /\ IF r.kind = "raise"
              THEN Abort(r.exc) /\ UNCHANGED <<wssessionid, tier>>
              ELSE IF r.kind = "value"
              THEN wssessionid' = r.v /\ tier' = "peer"
                   /\ pc' = ReturnOrNext(r, "find") /\ UNCHANGED error
              ELSE pc' = ReturnOrNext(r, "find")
                   /\ UNCHANGED <<wssessionid, tier, error>>
    /\ UNCHANGED <<pauses, exits, cookieFile, searchFile, scripts, now, today,
                   upstream, jar,
                   script_path, week_dates, bi, di, all_events, outputFile,
                   requests, writes>>

\* _run_cookie_script, line 105: locate the extractor
FindScript ==
    /\ pc = "find"
    /\ Log("find_script")
    /\ LET r == FindCookieScript(scripts)
       IN  IF r.kind = "raise"
           THEN Abort(r.exc) /\ UNCHANGED script_path
           ELSE script_path' = r.v /\ pc' = "run" /\ UNCHANGED error
    /\ UNCHANGED <<pauses, exits, cookieFile, searchFile, scripts, now, today,
                   upstream, jar,
                   cookie, wssessionid, tier, week_dates, bi, di, all_events,
                   outputFile, requests, writes>>

\* what the extractor, an external program, may leave in the Credential Store
\* when it ends at time t: nothing new, a record stamped t in local time with
\* or without the "Z" suffix, or a file that is no JSON
ExtractorStores(old, t) ==
    { old,
      DictFile(Str(<<"n","e","w">>), Iso(t, "")),
      DictFile(Str(<<"n","e","w">>), Iso(t, "Z")),
      BadJsonFile }

\* and in the peer-capture file: nothing new, or one freshly captured cookie
ExtractorJars(old) ==
    { old, <<[sep |-> <<>>, name |-> NAME_UPPER, value |-> <<"n","e","w">>]>> }

CheckReturnCodeIgnored(returncode) == None

\* _run_cookie_script, lines 117-120: a non-zero status raises
CheckReturnCode(returncode) ==
    IF returncode # 0 THEN Raise("RuntimeError: extractor failed") ELSE None

\* seconds the extractor may take
Elapsed == {0, 60}

\* _run_cookie_script, lines 106-120: run the extractor and check its status
RunScript ==
    /\ pc = "run"
    /\ Log("subprocess")
    /\ \E returncode \in {0, 1}, elapsed \in Elapsed :
         /\ now' = now + elapsed
         /\ exits' = Append(exits, returncode)
         /\ \E f \in ExtractorStores(cookieFile, now + elapsed) : cookieFile' = f
         /\ \E j \in ExtractorJars(jar) :
              /\ jar' = j
              /\ searchFile' = IF j = jar THEN searchFile ELSE SearchFileOf(j)
         /\ LET r == CheckReturnCode(returncode)
            IN  IF r.kind = "raise"
                THEN Abort(r.exc)
                ELSE pc' = "reload" /\ UNCHANGED error
    /\ UNCHANGED <<pauses, scripts, today, upstream, cookie, wssessionid, tier,
                   script_path, week_dates, bi, di, all_events, outputFile,
                   requests, writes>>

\* get_wssessionid, lines 133-136: re-read the Credential Store
Reload ==
    /\ pc = "reload"
    /\ Log("load_disk")
    /\ LET r == LoadCookieFromDisk(cookieFile, now)
       IN  /\ cookie' = r
           /\ IF r.kind = "raise"
              THEN Abort(r.exc) /\ UNCHANGED <<wssessionid, tier>>
              ELSE IF r.kind = "value"
              THEN wssessionid' = r.v /\ tier' = "extractor" /\ pc' = "dates"
                   /\ UNCHANGED error
              ELSE Abort("RuntimeError: cookie file not created")
                   /\ UNCHANGED <<wssessionid, tier>>
    /\ UNCHANGED <<pauses, exits, cookieFile, searchFile, scripts, now, today,
                   upstream, jar,
                   script_path, week_dates, bi, di, all_events, outputFile,
                   requests, writes>>

\* get_current_week_events, lines 223-230: the week and the empty accumulator
WeekDates ==
    /\ pc = "dates"
    /\ week_dates' = GetCurrentWeekDates(today)
    /\ all_events' = <<>>
    /\ bi' = 1
    /\ di' = 1
    /\ pc' = IF Len(BUILDING_IDS) = 0 THEN "tail" ELSE "fetch"
    /\ UNCHANGED <<pauses, exits, cookieFile, searchFile, scripts, now, today,
                   upstream, jar,
                   cookie, wssessionid, tier, script_path, outputFile, error,
                   calls, requests, writes>>

\* get_current_week_events, lines 232-233: one request and its records
Fetch ==
    /\ pc = "fetch"
    /\ Log("fetch")
    /\ LET building_id == BUILDING_IDS[bi]
           day         == week_dates[di]
           r           == FetchBuildingEvents(building_id, day, upstream[bi][di])
       IN  /\ requests' = Append(requests,
                 [building_id |-> building_id, day |-> day, cookie |-> wssessionid])
           /\ IF r.kind = "raise"
              THEN Abort(r.exc) /\ UNCHANGED all_events
              ELSE /\ all_events' = all_events \o r.v
                   /\ pc' = "sleep"
                   /\ UNCHANGED error
    /\ UNCHANGED <<pauses, exits, cookieFile, searchFile, scripts, now, today,
                   upstream, jar,
                   cookie, wssessionid, tier, script_path, week_dates, bi, di,
                   outputFile, writes>>

\* the pause, were a failed request to send the run back to the credential chain
SleepReacquiring ==
    /\ pc = "sleep"
    /\ Log("sleep")
    /\ pauses' = Append(pauses, REQUEST_DELAY_MS)
    /\ IF upstream[bi][di].kind # "json"
       THEN di' = di /\ bi' = bi /\ pc' = "disk"
       ELSE IF di < Len(week_dates)
       THEN di' = di + 1 /\ bi' = bi /\ pc' = "fetch"
       ELSE IF bi < Len(BUILDING_IDS)
       THEN di' = 1 /\ bi' = bi + 1 /\ pc' = "fetch"
       ELSE di' = di /\ bi' = bi /\ pc' = "tail"
    /\ UNCHANGED <<exits, cookieFile, searchFile, scripts, now, today,
                   upstream, jar,
                   cookie, wssessionid, tier, script_path, week_dates,
                   all_events, outputFile, error, requests, writes>>

\* the pause, were it skipped after a failed request
SleepSkippingAfterFailure ==
    /\ pc = "sleep"
    /\ IF upstream[bi][di].kind # "json"
       THEN UNCHANGED <<calls, pauses>>
       ELSE Log("sleep") /\ pauses' = Append(pauses, REQUEST_DELAY_MS)
    /\ IF di < Len(week_dates)
       THEN di' = di + 1 /\ bi' = bi /\ pc' = "fetch"
       ELSE IF bi < Len(BUILDING_IDS)
       THEN di' = 1 /\ bi' = bi + 1 /\ pc' = "fetch"
       ELSE di' = di /\ bi' = bi /\ pc' = "tail"
    /\ UNCHANGED <<exits, cookieFile, searchFile, scripts, now, today,
                   upstream, jar,
                   cookie, wssessionid, tier, script_path, week_dates,
                   all_events, outputFile, error, requests, writes>>

\* get_current_week_events, line 234 and the two for loops: pause, next pair
Sleep ==
    /\ pc = "sleep"
    /\ Log("sleep")
    /\ pauses' = Append(pauses, REQUEST_DELAY_MS)
    /\ IF di < Len(week_dates)
       THEN di' = di + 1 /\ bi' = bi /\ pc' = "fetch"
       ELSE IF bi < Len(BUILDING_IDS)
       THEN di' = 1 /\ bi' = bi + 1 /\ pc' = "fetch"
       ELSE di' = di /\ bi' = bi /\ pc' = "tail"
    /\ UNCHANGED <<exits, cookieFile, searchFile, scripts, now, today,
                   upstream, jar,
                   cookie, wssessionid, tier, script_path, week_dates,
                   all_events, outputFile, error, requests, writes>>

\* main, lines 251-254, with save_events_to_file: a non-empty result is written
MainTail ==
    /\ pc = "tail"
    /\ IF all_events # <<>>
       THEN /\ outputFile' = all_events
            /\ writes' = Append(writes, "thisWeeksEvents.json")
       ELSE UNCHANGED <<outputFile, writes>>
    /\ pc' = "exit0"
    /\ UNCHANGED <<pauses, exits, cookieFile, searchFile, scripts, now, today,
                   upstream, jar,
                   cookie, wssessionid, tier, script_path, week_dates, bi, di,
                   all_events, error, calls, requests>>

Next ==
    \/ DiskTier
    \/ PeerTier
    \/ FindScript
    \/ RunScript
    \/ Reload
    \/ WeekDates
    \/ Fetch
    \/ Sleep
    \/ MainTail

Spec == Init /\ [][Next]_vars

\* the harvest alone: an absent Credential Store, every generated cookies
\* string in the peer-capture file, and the two tiers that read them
InitHarvest ==
    /\ InitLocals
    /\ now \in StartTimes
    /\ cookieFile = AbsentFile
    /\ jar \in Jars(MaxParts) \cup ExampleJars
    /\ searchFile = SearchFileOf(jar)
    /\ scripts = {}
    /\ today \in Todays
    /\ upstream = Answering(1, 1, EmptyJson, EmptyJson)

NextHarvest ==
    \/ DiskTier
    \/ PeerTier

SpecHarvest == InitHarvest /\ [][NextHarvest]_vars

-----------------------------------------------------------------------------
(* Vocabulary of the properties *)

\* the calls of the acquisition, without those of the fetch loop
AcqCalls == SelectSeq(calls, LAMBDA c : c \notin {"fetch", "sleep"})

Count(what) == Cardinality({i \in 1..Len(calls) : calls[i] = what})

TierOrder == <<"load_disk", "load_search", "find_script", "subprocess", "load_disk">>

\* the first load() has run and nothing after it: files and clock are as it saw them
AfterFirstLoad == calls = <<"load_disk">>

\* a stored record with a non-empty token and an ISO timestamp of the given suffix
StoredWith(suffixes) ==
    /\ cookieFile.kind = "dict"
    /\ cookieFile.WSSESSIONID.type = "str"
    /\ cookieFile.WSSESSIONID.s # <<>>
    /\ cookieFile.extracted_at.type = "str"
    /\ cookieFile.extracted_at.form = "iso"
    /\ cookieFile.extracted_at.suffix \in suffixes

Age == now - cookieFile.extracted_at.t

TwelveHours == 12 * 3600

-----------------------------------------------------------------------------
\* C1: the tiers are attempted in the order disk, peer-capture, extractor; when
\* the disk tier returns a credential no other tier is consulted, and when the
\* peer-capture tier returns one the extractor is neither located nor run.
C1_ShortCircuit ==
    /\ \E n \in 0..Len(TierOrder) : AcqCalls = SubSeq(TierOrder, 1, n)
    /\ tier = "disk" => AcqCalls = <<"load_disk">>
    /\ tier = "peer" => AcqCalls = <<"load_disk", "load_search">>

\* a run completed on the disk credential although the peer-capture file held a
\* token and an extractor existed
C1_Witness ==
    /\ pc = "exit0"
    /\ tier = "disk"
    /\ LoadCookieFromSearchResults(searchFile).kind = "value"
    /\ scripts # {}

\* C2: when disk and peer-capture tiers gave no credential and no candidate
\* extractor exists, the run aborts with "no extractor found", the extractor
\* is not run and no HTTP request is sent.
C2_FatalNoExtractor ==
    (Len(AcqCalls) >= 3 /\ scripts = {}) =>
        /\ pc = "exit1"
        /\ error = "FileNotFoundError"
        /\ AcqCalls = <<"load_disk", "load_search", "find_script">>
        /\ requests = <<>>
        /\ Count("fetch") = 0

C2_Witness ==
    /\ scripts = {}
    /\ AcqCalls = <<"load_disk", "load_search", "find_script">>
    /\ pc = "exit1"

\* C3 (as claimed): load() never raises, whatever the backing file holds.
C3_LoadNeverRaises ==
    (calls # <<>> /\ calls[Len(calls)] = "load_disk") => cookie.kind # "raise"

\* C4 (as claimed): for a stored record with a token and a parseable timestamp,
\* load() returns the token exactly when the age is below 12 hours, and
\* otherwise gives "no credential" and the chain moves to the next tier.
C4_FreshExactlyBelow12h ==
    (AfterFirstLoad /\ StoredWith({"", "Z", "+00:00"})) =>
        IF Age < TwelveHours
        THEN cookie = Value(cookieFile.WSSESSIONID.s) /\ tier = "disk"
        ELSE cookie = None /\ pc = "peer"

\* C4, the part the code does satisfy: the same for timestamps without offset.
C4_NaiveFreshExactlyBelow12h ==
    (AfterFirstLoad /\ StoredWith({""})) =>
        IF Age < TwelveHours
        THEN cookie = Value(cookieFile.WSSESSIONID.s) /\ tier = "disk"
        ELSE cookie = None /\ pc = "peer"

\* C5 (as claimed): a record whose timestamp ends in "Z" is returned when less
\* than 12 hours old and gives "no credential" otherwise; load() does not fail.
C5_ZSuffixAccepted ==
    (AfterFirstLoad /\ StoredWith({"Z"})) =>
        /\ cookie.kind # "raise"
        /\ IF Age < TwelveHours
           THEN cookie = Value(cookieFile.WSSESSIONID.s)
           ELSE cookie = None

\* C6: a non-zero exit status of the extractor is fatal: the run has ended with
\* the extractor's error, the extractor ran once, the Credential Store was read
\* once (before it), and no HTTP request was sent.
C6_ExtractorFailureFatal ==
    (\E i \in 1..Len(exits) : exits[i] # 0) =>
        /\ pc = "exit1"
        /\ error = "RuntimeError: extractor failed"
        /\ Len(exits) = 1
        /\ AcqCalls = <<"load_disk", "load_search", "find_script", "subprocess">>
        /\ requests = <<>>
        /\ Count("fetch") = 0

C6_Witness ==
    /\ exits = <<1>>
    /\ pc = "exit1"
    /\ LoadCookieFromDisk(cookieFile, now).kind = "value"

\* C7: the extractor runs at most once and the peer-capture tier is not
\* consulted after it; after exit status 0 the Credential Store is re-read
\* exactly once: a fresh credential is the one returned, "no credential" is
\* fatal and nothing is fetched.
C7_NoLoop ==
    /\ Count("subprocess") <= 1
    /\ Count("load_search") <= 1
    /\ Len(exits) = Count("subprocess")
    /\ \A i, j \in 1..Len(calls) :
          (calls[i] = "subprocess" /\ i < j) => calls[j] \notin {"load_search", "find_script"}
    /\ (exits = <<0>> /\ pc # "reload") =>
          /\ AcqCalls = TierOrder
          /\ LET r == LoadCookieFromDisk(cookieFile, now)
             IN  /\ r.kind = "value" => (tier = "extractor" /\ wssessionid = r.v
                                          /\ error # "RuntimeError: cookie file not created")
                 /\ r.kind = "none"  => (pc = "exit1" /\ tier = ""
                                          /\ error = "RuntimeError: cookie file not created"
                                          /\ requests = <<>>)

\* the extractor ended with status 0 and left no usable credential
C7_Witness ==
    /\ exits = <<0>>
    /\ pc = "exit1"
    /\ error = "RuntimeError: cookie file not created"

\* the pairs of the jar that carry the token: name WSSESSIONID in any
\* letter case and a non-empty value
TokenPairs(pairs) ==
    {i \in 1..Len(pairs) : Upper(pairs[i].name) = NAME_UPPER /\ pairs[i].value # <<>>}

\* the peer-capture file holds nothing to harvest: one of the plain files, or
\* a cookies string without a token pair
NothingToHarvest ==
    \/ searchFile \in PlainSearchFiles
    \/ (searchFile = SearchFileOf(jar) /\ TokenPairs(jar) = {})

\* C8 (as claimed): whenever the peer-capture file holds nothing to harvest
\* (absent, unreadable, malformed, of an unexpected shape, without the
\* preferred entry or without the cookie), the peer-capture tier gives
\* "no credential" without raising and the chain goes on to the extractor.
C8_PeerFailureFallsThrough ==
    (AcqCalls = <<"load_disk", "load_search">> /\ NothingToHarvest) =>
        /\ cookie = None
        /\ pc = "find"

\* C9: from a cookies string of name=value parts the harvested value is the
\* value of a part named WSSESSIONID in any letter case; nothing is harvested
\* from parts of another name, and without such a part of non-empty value the
\* result is "no credential".
C9_Harvest ==
    (AcqCalls = <<"load_disk", "load_search">> /\ searchFile = SearchFileOf(jar)) =>
        /\ cookie.kind # "raise"
        /\ cookie.kind = "value" =>
              \E i \in TokenPairs(jar) : cookie.v = jar[i].value
        /\ cookie.kind = "none" <=> TokenPairs(jar) = {}
        /\ Cardinality(TokenPairs(jar)) = 1 =>
              cookie = Value(jar[CHOOSE i \in TokenPairs(jar) : TRUE].value)

\* "A=1; wssessionid=abc123; B=2" gave abc123
C9_Witness ==
    /\ AcqCalls = <<"load_disk", "load_search">>
    /\ Len(jar) = 3
    /\ jar[2].name = NAME_LOWER
    /\ cookie = Value(<<"a","b","c","1","2","3">>)
    /\ tier = "peer"

\* C10: no step of the program itself changes the Credential Store or the
\* peer-capture file: they change only in the step that runs the extractor
\* subprocess, and the program's own writes go to the output file alone.
C10_CoreNeverWrites ==
    [][ /\ (cookieFile' # cookieFile \/ searchFile' # searchFile) =>
              (pc = "run" /\ calls' = Append(calls, "subprocess"))
        /\ \A i \in 1..Len(writes') : writes'[i] = "thisWeeksEvents.json" ]_vars

\* a run completed on a harvested token that the Credential Store does not hold
C10_Witness ==
    /\ pc = "exit0"
    /\ tier = "peer"
    /\ wssessionid # <<>>
    /\ cookieFile.WSSESSIONID.s # wssessionid
    /\ writes # <<>>

-----------------------------------------------------------------------------
(* The fetch loop alone: a fresh stored credential and a service that answers *)
(* one pair in any of the ways a response can look                            *)

EntryNoLocation   == Rsrv(NameText("Yoga"), "T09", "T10", <<>>)
EntryOneLocation  == Rsrv(NameText("Yoga"), "T09", "T10", <<"Gym">>)
EntryTwoLocations == Rsrv(NameText("Swim"), "T13", "T14", <<"Gym", "Pool">>)
EntryNumberName   == Rsrv(NameNum("5"), "T11", "T12", <<"Lab">>)
EntryNoName       == Rsrv(NameMissing, "T15", "T16", <<"Hall">>)

\* JSON bodies on which the key path root -> events -> [0] -> rsrv breaks off:
\* the body is no object, "root" is absent or null, "events" is absent, null
\* or empty, "rsrv" is absent or null
BrokenShapes ==
    {"nondict", "noroot", "rootnull", "noevents", "eventsnull", "eventsempty",
     "norsrv", "rsrvnull"}

Responses ==
    {FailedResponse, NotJsonResponse}
    \cup {JsonResponse(shape, <<>>) : shape \in BrokenShapes}
    \cup {JsonResponse("ok", rsrv) :
            rsrv \in { <<>>, <<EntryNoLocation>>, <<EntryOneLocation>>,
                       <<EntryTwoLocations>>, <<EntryNoName>>,
                       <<EntryTwoLocations, EntryNoLocation, EntryNumberName>> }}

\* the first pair, a pair in the middle of a building, and the last pair
SpecialPairs == {<<1, 1>>, <<1, 3>>, <<Len(BUILDING_IDS), 7>>}

\* every building answers its days with a failure, nothing, an event, ...
MixedAnswers ==
    [i \in 1..Len(BUILDING_IDS) |->
        [k \in 1..7 |-> IF k % 3 = 1 THEN FailedResponse
                        ELSE IF k % 3 = 2 THEN EmptyJson ELSE OneEvent]]

UpstreamsFetch ==
    {Answering(p[1], p[2], r, rest) :
        p \in SpecialPairs, r \in Responses,
        rest \in {EmptyJson, OneEvent, FailedResponse}}
    \cup {MixedAnswers}

\* Saturday 2023-11-04, and Thursday 2024-02-29 whose week ends in March
TodaysFetch == {738828, 738945}

InitFetch ==
    /\ InitLocals
    /\ now \in StartTimes
    /\ cookieFile = DictFile(Str(TOKEN), Iso(now, ""))
    /\ searchFile = AbsentSearch
    /\ jar = <<>>
    /\ scripts = {}
    /\ today \in TodaysFetch
    /\ upstream \in UpstreamsFetch

NextFetch ==
    \/ DiskTier
    \/ WeekDates
    \/ Fetch
    \/ Sleep
    \/ MainTail

SpecFetch == InitFetch /\ [][NextFetch]_vars

-----------------------------------------------------------------------------
(* Vocabulary of the properties of the fetch loop *)

NumPairs == Len(BUILDING_IDS) * 7

\* the k-th pair of the iteration: buildings in declared order, days ascending
BuildingOf(k) == ((k - 1) \div 7) + 1
DayOf(k)      == ((k - 1) % 7) + 1

ResponseAt(k) == upstream[BuildingOf(k)][DayOf(k)]

\* timeout, connection error, non-2xx status, or a body that is no JSON
IsFailure(r) == r.kind \in {"exc", "notjson"}

\* the k-th request went to the k-th pair
InOrder(k) ==
    /\ requests[k].building_id = BUILDING_IDS[BuildingOf(k)]
    /\ requests[k].day = week_dates[DayOf(k)]

\* the result list of the k-th pair
ResultOf(k) ==
    FetchBuildingEvents(BUILDING_IDS[BuildingOf(k)], week_dates[DayOf(k)],
                        ResponseAt(k)).v

RECURSIVE ConcatResults(_)
ConcatResults(n) ==
    IF n = 0 THEN <<>> ELSE ConcatResults(n - 1) \o ResultOf(n)

\* the run is over, or get_current_week_events has returned
Finished == pc \in {"tail", "exit0", "exit1"}

-----------------------------------------------------------------------------
\* C11 (as claimed): when the request of some pair fails (timeout, connection
\* error, non-2xx status, body that is no JSON) the run does not abort, every
\* pair is still requested in iteration order, and the final sequence holds
\* the records of the other pairs in that order and nothing for the failed one.
C11_FailureIsolated ==
    (\E k \in 1..Len(requests) : IsFailure(ResponseAt(k))) =>
        /\ pc # "exit1"
        /\ Finished =>
              /\ Len(requests) = NumPairs
              /\ \A k \in 1..NumPairs : InOrder(k)
              /\ all_events = ConcatResults(NumPairs)
              /\ \A k \in 1..NumPairs : IsFailure(ResponseAt(k)) => ResultOf(k) = <<>>

\* C11, the part the code does satisfy: a failed request adds nothing, the run
\* never ends at a failed request, and a run that completes has requested
\* every pair in order.
C11_FailedRequestNeverAborts ==
    /\ \A k \in 1..Len(requests) : IsFailure(ResponseAt(k)) => ResultOf(k) = <<>>
    /\ (pc = "exit1" /\ requests # <<>>) => ~IsFailure(ResponseAt(Len(requests)))
    /\ \A k \in 1..Len(requests) : InOrder(k)
    /\ pc \in {"tail", "exit0"} =>
          (Len(requests) = NumPairs /\ all_events = ConcatResults(NumPairs))

\* C12 (as claimed): a body that is JSON, whatever its shape, never aborts the
\* batch: the request that received it has added an empty or a normalized list
\* and the run goes on.
C12_AnyJsonShapeTolerated ==
    (requests # <<>> /\ ResponseAt(Len(requests)).kind = "json") => pc # "exit1"

\* C13 (as claimed): once the credential is acquired, the run issues exactly one
\* fetch per pair, buildings in declared order and days ascending, and the
\* sequence it ends with is the concatenation of the per-pair results.
C13_OneFetchPerPair ==
    (tier # "" /\ Finished) =>
        /\ Len(requests) = NumPairs
        /\ \A k \in 1..NumPairs : InOrder(k)
        /\ all_events = ConcatResults(NumPairs)

\* C13, the part the code does satisfy: requests follow the iteration order,
\* at most one per pair, the accumulator is the concatenation of the results
\* so far, and a run that completes has made all of them.
C13_OrderAndAccumulation ==
    /\ Len(requests) <= NumPairs
    /\ \A k \in 1..Len(requests) : InOrder(k)
    /\ pc \in {"sleep", "tail", "exit0"} => all_events = ConcatResults(Len(requests))
    /\ pc \in {"tail", "exit0"} => Len(requests) = NumPairs

\* the number of location sub-entries of the entries before the i-th
RECURSIVE LocationsBefore(_, _)
LocationsBefore(rsrv, i) ==
    IF i <= 1 THEN 0
    ELSE LocationsBefore(rsrv, i - 1) + Len(rsrv[i - 1].subject)

\* C14: the request that received a list of reservation entries adds, for each
\* entry with k location sub-entries, exactly k records that share name,
\* startTime, endTime, date and buildingID and carry the k display names in
\* order (none for k = 0); date and buildingID are those of the request.
C14_Normalization ==
    [][ (pc = "fetch" /\ pc' = "sleep" /\ upstream[bi][di].kind = "json"
         /\ upstream[bi][di].shape = "ok") =>
        LET rsrv  == upstream[bi][di].rsrv
            added == SubSeq(all_events', Len(all_events) + 1, Len(all_events'))
            sent  == requests'[Len(requests')]
        IN  /\ Len(added) = LocationsBefore(rsrv, Len(rsrv) + 1)
            /\ \A i \in 1..Len(rsrv) : \A k \in 1..Len(rsrv[i].subject) :
                  LET rec   == added[LocationsBefore(rsrv, i) + k]
                      first == added[LocationsBefore(rsrv, i) + 1]
                  IN  /\ rec.location = rsrv[i].subject[k]
                      /\ rec.name = first.name
                      /\ rsrv[i].event_name.type = "str" =>
                            rec.name = rsrv[i].event_name.s
                      /\ rec.startTime = rsrv[i].rsrv_start_dt
                      /\ rec.endTime = rsrv[i].rsrv_end_dt
                      /\ rec.date = sent.day
                      /\ rec.date = week_dates[di]
                      /\ rec.buildingID = sent.building_id
                      /\ rec.buildingID = BUILDING_IDS[bi] ]_vars

\* a response with an entry of two locations, one of none and one of one has
\* added three records, the first two alike but for the location
C14_Witness ==
    /\ pc = "sleep"
    /\ upstream[bi][di] =
          JsonResponse("ok", <<EntryTwoLocations, EntryNoLocation, EntryNumberName>>)
    /\ Len(all_events) >= 3
    /\ LET n == Len(all_events)
       IN  /\ all_events[n - 2].location = "Gym"
           /\ all_events[n - 1].location = "Pool"
           /\ all_events[n - 2].name = all_events[n - 1].name
           /\ all_events[n].location = "Lab"

-----------------------------------------------------------------------------
\* C15: the credential is acquired once per run: the chain is entered once and
\* is over before the first request, no tier is consulted again once the
\* requests have begun (not even after a failed one), and every request
\* carries the one credential the chain returned.
C15_AcquiredOnce ==
    /\ \A i \in 1..Len(AcqCalls) :
          i <= Len(TierOrder) /\ AcqCalls[i] = TierOrder[i]
    /\ \A i, j \in 1..Len(calls) :
          (i < j /\ calls[i] \in {"fetch", "sleep"}) =>
              calls[j] \in {"fetch", "sleep"}
    /\ requests # <<>> =>
          /\ tier \in {"disk", "peer", "extractor"}
          /\ wssessionid # <<>>
          /\ \A k \in 1..Len(requests) : requests[k].cookie = wssessionid

\* a run that ended normally although its third request failed: all requests
\* were sent, with one credential, and the chain was entered once
C15_Witness ==
    /\ pc = "exit0"
    /\ upstream[1][3] = FailedResponse
    /\ Len(requests) = Len(BUILDING_IDS) * 7
    /\ Count("load_disk") >= 1
    /\ requests[4].cookie = requests[1].cookie

\* the fetches and pauses of the run, in the order they happened
LoopCalls == SelectSeq(calls, LAMBDA c : c \in {"fetch", "sleep"})

\* C16: requests and pauses strictly alternate, beginning with a request: one
\* pause of half a second follows every request, be it successful, empty or
\* failed, and no request is sent before the pause of the previous one.
C16_PauseBetweenRequests ==
    /\ \A i \in 1..Len(LoopCalls) :
          LoopCalls[i] = IF i % 2 = 1 THEN "fetch" ELSE "sleep"
    /\ Len(requests) = Count("fetch")
    /\ Len(pauses) = Count("sleep")
    /\ \A i \in 1..Len(pauses) : pauses[i] * 2 = 1000
    /\ pc = "fetch" => Len(pauses) = Len(requests)
    /\ pc \in {"tail", "exit0"} => Len(pauses) = Len(requests)
    /\ pc = "sleep" => Len(pauses) = Len(requests) - 1

\* a completed run whose requests met a failure, an empty answer and an
\* answer with records, each followed by its pause
C16_Witness ==
    /\ pc = "exit0"
    /\ upstream = MixedAnswers
    /\ IsFailure(ResponseAt(1))
    /\ ResultOf(2) = <<>>
    /\ ResultOf(3) # <<>>
    /\ Len(requests) = NumPairs
    /\ Len(pauses) = NumPairs

-----------------------------------------------------------------------------
(* The week of any day: get_current_week_dates on its own *)

\* 2023-11-26 .. 2024-03-05 (a leap day), 2024-12-28 .. 2025-01-06 (a week
\* across the turn of the year), and 2100-02-24 .. 2100-03-04 (the February
\* of a century year that is no leap year)
TodaysWeek == (738850..738950) \cup (739248..739257) \cup (766699..766707)

InitWeek ==
    /\ InitLocals
    /\ now \in StartTimes
    /\ cookieFile = DictFile(Str(TOKEN), Iso(now, ""))
    /\ searchFile = AbsentSearch
    /\ jar = <<>>
    /\ scripts = {}
    /\ today \in TodaysWeek
    /\ upstream = Answering(1, 1, EmptyJson, EmptyJson)

NextWeek ==
    \/ DiskTier
    \/ WeekDates

SpecWeek == InitWeek /\ [][NextWeek]_vars

\* the calendar, stated without ordinals
LeapYear(y) == y % 4 = 0 /\ (y % 100 # 0 \/ y % 400 = 0)

DaysIn(y, m) ==
    IF m = 2 THEN (IF LeapYear(y) THEN 29 ELSE 28)
    ELSE IF m \in {4, 6, 9, 11} THEN 30 ELSE 31

\* b is the day after a, both <<year, month, day>>
NextDay(a, b) ==
    IF a[3] < DaysIn(a[1], a[2]) THEN b = <<a[1], a[2], a[3] + 1>>
    ELSE IF a[2] < 12 THEN b = <<a[1], a[2] + 1, 1>>
    ELSE b = <<a[1] + 1, 1, 1>>

\* the day of the week of <<year, month, day>>, 0 for Sunday (Sakamoto's rule)
DayOfWeek(a) ==
    LET t == <<0, 3, 2, 5, 0, 3, 5, 1, 4, 6, 2, 4>>
        y == IF a[2] < 3 THEN a[1] - 1 ELSE a[1]
    IN  (y + (y \div 4) - (y \div 100) + (y \div 400) + t[a[2]] + a[3]) % 7

\* C17: for any "today", get_current_week_dates returns exactly 7 dates, each
\* the day after the one before it, the first a Monday, "today" among them.
C17_WeekOfToday ==
    week_dates # <<>> =>
        /\ Len(week_dates) = 7
        /\ \A i \in 1..6 : NextDay(week_dates[i], week_dates[i + 1])
        /\ DayOfWeek(week_dates[1]) = 1
        /\ \E i \in 1..7 : week_dates[i] = IsoFormat(today)

\* the week of Wednesday 2025-01-01 begins in the year before
C17_Witness ==
    /\ today = 739252
    /\ week_dates # <<>>
    /\ week_dates[1] = <<2024, 12, 30>>
    /\ week_dates[3] = <<2025, 1, 1>>
    /\ week_dates[7] = <<2025, 1, 5>>

\* the week of Thursday 2024-02-29 holds the leap day and ends in March
C17_LeapWeek ==
    (today = 738945 /\ week_dates # <<>>) =>
        /\ week_dates[1] = <<2024, 2, 26>>
        /\ week_dates[4] = <<2024, 2, 29>>
        /\ week_dates[7] = <<2024, 3, 3>>

-----------------------------------------------------------------------------
\* the three fatal acquisition failures: extractor missing, extractor exited
\* non-zero, extractor left no usable credential
AcquisitionFailures ==
    {"FileNotFoundError", "RuntimeError: extractor failed",
     "RuntimeError: cookie file not created"}

\* C18 (as claimed): a run ends in one of two outcomes only: completed, after
\* |buildings| x 7 requests and with a normal exit (an empty result included),
\* or a fatal acquisition failure (extractor missing, failing, or leaving no
\* usable credential) before any request, with a failing exit.
C18_TwoOutcomes ==
    /\ pc = "exit0" =>
          /\ Len(requests) = Len(BUILDING_IDS) * 7
          /\ error = ""
    /\ pc = "exit1" =>
          /\ error \in AcquisitionFailures
          /\ requests = <<>>

\* what does hold: a normal exit comes after all requests, and an acquisition
\* failure is reported before any request and without writing the result file
C18_CompletedOrFailedAsDescribed ==
    /\ pc = "exit0" =>
          /\ Len(requests) = Len(BUILDING_IDS) * 7
          /\ error = ""
          /\ (all_events = <<>> => outputFile = <<>>)
    /\ (pc = "exit1" /\ error \in AcquisitionFailures) =>
          /\ requests = <<>>
          /\ outputFile = <<>>

-----------------------------------------------------------------------------
\* the extractor has not run: files and clock are as the run found them
Untouched == calls # <<>> /\ Count("subprocess") = 0

FirstTokenPair(pairs) ==
    CHOOSE i \in TokenPairs(pairs) : \A j \in TokenPairs(pairs) : i <= j

\* C20: a credential harvested from the peer-capture file is accepted without
\* an age check: once the disk tier gave "no credential" (a stale stored token
\* included) and the preferred entry holds a non-empty WSSESSIONID value, that
\* value is the credential of the run and the extractor is not even located,
\* so that it cannot run.
C20_PeerAcceptedWithoutAgeCheck ==
    (/\ Len(AcqCalls) >= 2 /\ Untouched
     /\ searchFile = SearchFileOf(jar) /\ TokenPairs(jar) # {}) =>
        /\ cookie = Value(jar[FirstTokenPair(jar)].value)
        /\ tier = "peer"
        /\ wssessionid = jar[FirstTokenPair(jar)].value
        /\ AcqCalls = <<"load_disk", "load_search">>
        /\ Count("find_script") = 0
        /\ \A k \in 1..Len(requests) :
              requests[k].cookie = jar[FirstTokenPair(jar)].value

\* a run completed on a harvested credential while the stored one, twelve
\* hours old or more, had been rejected as stale
C20_Witness ==
    /\ pc = "exit0"
    /\ tier = "peer"
    /\ StoredWith({""})
    /\ Age >= TwelveHours
    /\ TokenPairs(jar) # {}
    /\ Len(requests) = Len(BUILDING_IDS) * 7
    /\ requests[1].cookie = jar[FirstTokenPair(jar)].value

====
